---------------------------- MODULE Spec2Model ----------------------------
(***************************************************************************)
(* Model of python3/mass_deploy_content.py: one content item is exported   *)
(* from a source organization and deployed to every organization of a CSV  *)
(* roster through a ThreadPoolExecutor of 10 workers.                      *)
(*                                                                         *)
(* Python values: an optional value (None or a value) is the empty or the  *)
(* one-element tuple; a string built by str.format is the tuple of its     *)
(* pieces, and so are a path and an id; the log sink is a bag of records   *)
(* (writer thread, source line of the logger call, organization).          *)
(***************************************************************************)
EXTENDS Naturals, Sequences, FiniteSets, Bags

\* ------------------------------------------------------------------ bounds

\* Longest roster whose deploys run against a vendor that may answer or fail.
MaxOrgs == 3

\* Roster rows beyond the pool's capacity in the pool scenario.
PoolExtra == 1

\* ------------------------------------------------------- program constants

\* ThreadPoolExecutor(max_workers=10)
max_workers == 10

\* ------------------------------------------------------------ Python values

None == <<>>

Some(x) == <<x>>

\* str(x) of a value read from the CSV (a string) or of None (a short row).
Str(x) == IF x = None THEN <<"None">> ELSE x

\* '{}/{}'.format(a, b)
Format(a, b) == a \o <<"/", b>>

\* The export's failure sentinel, the bool False.
PyFalse == [type |-> "bool"]

\* An exported content document: a dict with at least a name.
Doc == [type |-> "dict", name |-> "dashboard"]

\* The name `content` before main assigns it.
Unassigned == [type |-> "unassigned"]

\* content['name'] read leniently (content.get('name')): nothing raises.
GetNameLenient(c) ==
    [raised |-> FALSE, value |-> IF c.type = "dict" THEN c.name ELSE "None"]

\* content['name']: a dict gives the value, a bool raises TypeError.
GetName(c) ==
    IF c.type = "dict"
    THEN [raised |-> FALSE, value |-> c.name]
    ELSE [raised |-> TRUE, value |-> "'bool' object is not subscriptable"]

\* -------------------------------------------------------- region resolver

\* The endpoints dict of endpoint().
endpoints ==
    [d \in {"prod", "us1", "us2", "eu", "dub", "ca", "mon", "de", "fra",
            "au", "syd", "jp", "tky", "in", "mum", "fed"} |->
        CASE d \in {"prod", "us1"} -> "https://api.sumologic.com/api"
          [] d = "us2"             -> "https://api.us2.sumologic.com/api"
          [] d \in {"eu", "dub"}   -> "https://api.eu.sumologic.com/api"
          [] d \in {"ca", "mon"}   -> "https://api.ca.sumologic.com/api"
          [] d \in {"de", "fra"}   -> "https://api.de.sumologic.com/api"
          [] d \in {"au", "syd"}   -> "https://api.au.sumologic.com/api"
          [] d \in {"jp", "tky"}   -> "https://api.jp.sumologic.com/api"
          [] d \in {"in", "mum"}   -> "https://api.in.sumologic.com/api"
          [] d = "fed"             -> "https://api.fed.sumologic.com/api"]

\* endpoint(deployment) with a lookup that never fails (dict.get with a
\* default), the slip the resolver's KeyError guards against.
endpoint_default(deployment) ==
    IF deployment \in DOMAIN endpoints
    THEN [raised |-> FALSE, url |-> endpoints[deployment]]
    ELSE [raised |-> FALSE, url |-> "https://api.sumologic.com/api"]

\* endpoint(deployment) with the alias 'dub' pointing at the wrong region.
endpoint_alias(deployment) ==
    IF deployment \in DOMAIN endpoints
    THEN [raised |-> FALSE,
          url |-> IF deployment = "dub" THEN endpoints["de"]
                  ELSE endpoints[deployment]]
    ELSE [raised |-> TRUE, url |-> ""]

\* endpoint(deployment): endpoints[deployment], KeyError for an unknown code.
endpoint(deployment) ==
    IF deployment \in DOMAIN endpoints
    THEN [raised |-> FALSE, url |-> endpoints[deployment]]
    ELSE [raised |-> TRUE, url |-> ""]

\* ------------------------------------------------------------------- state

VARIABLES
    vendor,        \* how the vendor API behaves during this run
    orgFile,       \* the roster file: None (cannot be opened) or Some(rows)
    deployment,    \* arguments.deployment
    destPath,      \* arguments.destPath
    pc,            \* where the main thread is
    org_list,      \* main's org_list
    content,       \* main's content
    uncaught,      \* the exception that ended the main thread, or None
    next_org,      \* rows the submit loop of parallel_runner has been through
    task,          \* per row: where its deploy task is
    api_endpoint,  \* per row: the api_endpoint its task was submitted with
    folder_id,     \* per row: the task's destination_folder_id
    content_id,    \* per row: the task's imported_content_id
    result,        \* per row: the task's return value, or None
    raised,        \* per row: the exception the task's future holds, or None
    yielded,       \* rows whose future as_completed has yielded
    calls,         \* per row: the vendor calls made with the row's credentials
    source_calls,  \* the vendor calls made with the source's credentials
    log            \* the log sink

vars == <<vendor, orgFile, deployment, destPath, pc, org_list, content,
          uncaught, next_org, task, api_endpoint, folder_id, content_id,
          result, raised, yielded, calls, source_calls, log>>

\* ------------------------------------------------------------ the vendor

\* The outcomes of one vendor call (an HTTP round trip of the SumoLogic
\* client): it returns, or it raises.  With the vendor unreachable every
\* call raises.
CallOutcomes == IF vendor = "unreachable" THEN {"raise"} ELSE {"ok", "raise"}

\* The outcomes of SumoLogic(key, secret, endpoint=...).  With the vendor
\* unreachable the client object is still built: the failure shows at the
\* first call.
CtorOutcomes == IF vendor = "unreachable" THEN {"ok"} ELSE {"ok", "raise"}

\* The id of the item the vendor holds at a path.
ItemId(path) == <<"id">> \o path

NoBody == [type |-> "none"]

\* A vendor call as the vendor sees it.
Call(op, arg, body, outcome) ==
    [op |-> op, arg |-> arg, body |-> body, outcome |-> outcome]

\* ---------------------------------------------------------------- rosters

Row(i, d) ==
    [orgName |-> <<"org", i>>, orgID |-> <<"id", i>>, deployment |-> d,
     key |-> <<"key", i>>, secret |-> <<"secret", i>>]

\* The rosters of n rows whose deployment codes are drawn from `codes`.
Rosters(n, codes) ==
    {[i \in 1..n |-> Row(i, f[i])] : f \in [1..n -> codes]}

Rows == DOMAIN task

\* ------------------------------------------------------------------ logging

\* logger.<level>(...) at source line `line`, called by thread `writer`.
LogLine(writer, line, org) == [writer |-> writer, line |-> line, org |-> org]

Logged(lines) == log (+) SetToBag(lines)

\* ---------------------------------------------------------------- Init

InitRun(file, dep, v) ==
    /\ vendor = v
    /\ orgFile = file
    /\ deployment = dep
    /\ destPath = <<"/Library/Admin Recommended">>
    /\ pc = "read_roster"
    /\ org_list = <<>>
    /\ content = Unassigned
    /\ uncaught = None
    /\ next_org = 0
    /\ LET n == IF file = None THEN 0 ELSE Len(file[1]) IN
        /\ task = [i \in 1..n |-> "unsubmitted"]
        /\ api_endpoint = [i \in 1..n |-> None]
        /\ folder_id = [i \in 1..n |-> None]
        /\ content_id = [i \in 1..n |-> None]
        /\ result = [i \in 1..n |-> None]
        /\ raised = [i \in 1..n |-> None]
        /\ calls = [i \in 1..n |-> <<>>]
    /\ yielded = {}
    /\ source_calls = <<>>
    /\ log = EmptyBag

\* Any roster of up to MaxOrgs rows, known and unknown deployment codes
\* mixed, or no readable roster; a vendor that may answer or fail any call.
Init ==
    \E dep \in {"us2", "zz"} :
      \E file \in {None} \cup
                  {Some(r) : r \in UNION {Rosters(n, {"us2", "zz"}) : n \in 0..MaxOrgs}} :
        InitRun(file, dep, "any")

\* A roster larger than the pool, every row valid, the vendor unreachable.
InitPool ==
    InitRun(Some(CHOOSE r \in Rosters(max_workers + PoolExtra, {"us2"}) : TRUE),
            "us2", "unreachable")

\* Two rows whose deployment codes range, independently, over the whole
\* region table and two codes outside it.
InitCodes ==
    \E f \in [1..2 -> DOMAIN endpoints \cup {"zz", "US2"}] :
      InitRun(Some([i \in 1..2 |-> Row(i, f[i])]), "us2", "any")

\* ------------------------------------------------------------ main thread

\* An uncaught exception leaves main at source line `line`.
Crash(line, type) ==
    /\ pc' = "crashed"
    /\ uncaught' = Some([line |-> line, type |-> type])

\* main, line 188: org_list = read_org_list_csv(arguments.orgFile).  A file
\* that cannot be opened raises out of main.
ReadRoster ==
    /\ pc = "read_roster"
    /\ IF orgFile = None
       THEN /\ Crash(188, "OSError")
            /\ UNCHANGED org_list
       ELSE /\ org_list' = orgFile[1]
            /\ pc' = "export"
            /\ UNCHANGED uncaught
    /\ UNCHANGED <<vendor, orgFile, deployment, destPath, content, next_org,
                   task, api_endpoint, folder_id, content_id, result, raised,
                   yielded, calls, source_calls, log>>

\* export_content, lines 62-74, with the client built or not, and the two
\* vendor calls answered as `found` and `exported` say.  Every exception is
\* caught: the function logs it at debug level and returns False.
export_content(ctor, found, exported) ==
    LET path == <<"/Library/Users/source/content">>
        get == Call("get_content_by_path", path, NoBody, found)
        job == Call("export_content_job_sync", ItemId(path), NoBody, exported)
        failed == LogLine("main", 73, None)
    IN  CASE ctor = "raise" ->
               [ret |-> PyFalse, calls |-> <<>>, lines |-> {failed}]
          [] ctor = "ok" /\ found = "raise" ->
               [ret |-> PyFalse, calls |-> <<get>>, lines |-> {failed}]
          [] ctor = "ok" /\ found = "ok" /\ exported = "raise" ->
               [ret |-> PyFalse, calls |-> <<get, job>>,
                lines |-> {LogLine("main", 67, None), failed}]
          [] OTHER ->
               [ret |-> Doc, calls |-> <<get, job>>,
                lines |-> {LogLine("main", 67, None), LogLine("main", 69, None)}]

\* main, line 189: content = export_content(..., endpoint(arguments.deployment),
\* ...).  The argument endpoint(...) is evaluated first: an unknown code
\* raises KeyError out of main before export_content is entered.  main then
\* goes on to parallel_runner (line 191) whatever export_content returned.
Export ==
    /\ pc = "export"
    /\ IF endpoint(deployment).raised
       THEN /\ Crash(189, "KeyError")
            /\ UNCHANGED <<content, source_calls, log>>
       ELSE \E ctor \in CtorOutcomes, found \in CallOutcomes, exported \in CallOutcomes :
              LET r == export_content(ctor, found, exported) IN
                /\ content' = r.ret
                /\ source_calls' = source_calls \o r.calls
                /\ log' = Logged(r.lines)
                /\ pc' = "submit"
                /\ UNCHANGED uncaught
    /\ UNCHANGED <<vendor, orgFile, deployment, destPath, org_list, next_org,
                   task, api_endpoint, folder_id, content_id, result, raised,
                   yielded, calls>>

\* parallel_runner, lines 153-163: one turn of the submit loop.  The line is
\* logged, then the arguments of executor.submit are evaluated, then the task
\* is queued.  A KeyError of endpoint(org['deployment']) leaves the loop and
\* the `with` block: no later row is submitted.
Submit ==
    /\ pc = "submit"
    /\ next_org < Len(org_list)
    /\ LET i == next_org + 1
           org == org_list[i]
           ep == endpoint(org.deployment)
       IN /\ log' = Logged({LogLine("main", 154, org.orgName)})
          /\ IF ep.raised
             THEN /\ pc' = "shutdown"
                  /\ uncaught' = Some([line |-> 161, type |-> "KeyError"])
                  /\ UNCHANGED <<task, api_endpoint, next_org>>
             ELSE /\ task' = [task EXCEPT ![i] = "queued"]
                  /\ api_endpoint' = [api_endpoint EXCEPT ![i] = Some(ep.url)]
                  /\ next_org' = i
                  /\ UNCHANGED <<pc, uncaught>>
    /\ UNCHANGED <<vendor, orgFile, deployment, destPath, org_list, content,
                   folder_id, content_id, result, raised, yielded, calls,
                   source_calls>>

\* parallel_runner, line 153 to line 165: the roster is exhausted and main
\* turns to as_completed(threads).
EndSubmit ==
    /\ pc = "submit"
    /\ next_org = Len(org_list)
    /\ pc' = "collect"
    /\ UNCHANGED <<vendor, orgFile, deployment, destPath, org_list, content,
                   uncaught, next_org, task, api_endpoint, folder_id,
                   content_id, result, raised, yielded, calls, source_calls,
                   log>>

\* The result logged by a done-callback of the future, which runs on the
\* worker thread that finished the task.
CollectInCallback(i) ==
    /\ pc = "collect"
    /\ task[i] = "finished"
    /\ i \notin yielded
    /\ yielded' = yielded \cup {i}
    /\ log' = Logged({LogLine("worker", 166, result[i][1].org)})
    /\ UNCHANGED <<vendor, orgFile, deployment, destPath, pc, org_list,
                   content, uncaught, next_org, task, api_endpoint,
                   folder_id, content_id, result, raised, calls,
                   source_calls>>

\* parallel_runner, lines 165-166: as_completed yields a finished future not
\* yielded before; thread.result() returns the task's result, which main
\* logs, or raises the exception the future holds.
Collect(i) ==
    /\ pc = "collect"
    /\ task[i] = "finished"
    /\ i \notin yielded
    /\ yielded' = yielded \cup {i}
    /\ IF raised[i] # None
       THEN /\ pc' = "shutdown"
            /\ uncaught' = Some([line |-> 166, type |-> raised[i][1]])
            /\ UNCHANGED log
       ELSE /\ log' = Logged({LogLine("main", 166, result[i][1].org)})
            /\ UNCHANGED <<pc, uncaught>>
    /\ UNCHANGED <<vendor, orgFile, deployment, destPath, org_list, content,
                   next_org, task, api_endpoint, folder_id, content_id,
                   result, raised, calls, source_calls>>

\* parallel_runner, line 165: every future has been yielded; the `with`
\* block ends with nothing left to wait for and main returns.
EndCollect ==
    /\ pc = "collect"
    /\ yielded = {i \in Rows : task[i] # "unsubmitted"}
    /\ pc' = "done"
    /\ UNCHANGED <<vendor, orgFile, deployment, destPath, org_list, content,
                   uncaught, next_org, task, api_endpoint, folder_id,
                   content_id, result, raised, yielded, calls, source_calls,
                   log>>

\* The `with` block of line 152 left by an exception: the executor's
\* __exit__ is shutdown(wait=True), which returns once every submitted task
\* has run; the exception then leaves parallel_runner and main.
Shutdown ==
    /\ pc = "shutdown"
    /\ \A i \in Rows : task[i] \in {"unsubmitted", "finished"}
    /\ pc' = "crashed"
    /\ UNCHANGED <<vendor, orgFile, deployment, destPath, org_list, content,
                   uncaught, next_org, task, api_endpoint, folder_id,
                   content_id, result, raised, yielded, calls, source_calls,
                   log>>

\* ---------------------------------------------------------- worker threads

\* The rows whose task a worker thread is executing.
Running == {i \in Rows : task[i] \in {"L86", "L90", "L96", "L107"}}

\* A pool that starts a thread for every queued task.
PoolUnbounded == TRUE

\* ThreadPoolExecutor(max_workers=10), line 152: a queued task is taken up
\* only by one of at most max_workers worker threads, each running one task
\* at a time.
PoolHasIdleWorker == Cardinality(Running) < max_workers

\* import_and_share_content's return value on success, lines 109-114.
SuccessResult(i) ==
    [org |-> org_list[i].orgName, org_id |-> org_list[i].orgID,
     endpoint |-> api_endpoint[i][1], status |-> "SUCCESS",
     line_number |-> None, exception |-> None]

\* import_and_share_content's return value on failure, lines 117-124:
\* tb.tb_lineno is the line of the function that raised, str(e) the message.
FailResult(i, line, e) ==
    [org |-> org_list[i].orgName, org_id |-> org_list[i].orgID,
     endpoint |-> api_endpoint[i][1], status |-> "FAIL",
     line_number |-> Some(line), exception |-> Some(e)]

\* The task returns `res`: its future finishes with that result.
Return(i, res) ==
    /\ task' = [task EXCEPT ![i] = "finished"]
    /\ result' = [result EXCEPT ![i] = Some(res)]
    /\ UNCHANGED raised

\* A handler that lets the exception of the permission grant through: the
\* future finishes holding the exception.
ExceptNarrow(i, line, e) ==
    IF line = 107
    THEN /\ task' = [task EXCEPT ![i] = "finished"]
         /\ raised' = [raised EXCEPT ![i] = Some(e)]
         /\ UNCHANGED result
    ELSE Return(i, FailResult(i, line, e))

\* `except Exception as e`, lines 116-124: whatever a line of the try block
\* raised is caught and turned into a FAIL result.
Except(i, line, e) == Return(i, FailResult(i, line, e))

\* The permission grant issued on the destination folder's id.
permissions_on_folder(i) ==
    [contentPermissionAssignments |->
        <<[permissionName |-> "View", sourceType |-> "org",
           sourceId |-> Str(org_list[i].orgID),
           contentId |-> Str(folder_id[i][1])]>>,
     notifyRecipients |-> FALSE,
     notificationMessage |-> "none"]

\* explicit_permissions, lines 98-106.
explicit_permissions(i) ==
    [contentPermissionAssignments |->
        <<[permissionName |-> "View", sourceType |-> "org",
           sourceId |-> Str(org_list[i].orgID),
           contentId |-> Str(content_id[i][1])]>>,
     notifyRecipients |-> FALSE,
     notificationMessage |-> "none"]

\* A worker thread takes the oldest queued task (the pool's queue is FIFO)
\* and enters import_and_share_content; line 85 builds the client.
StartTask(i) ==
    /\ task[i] = "queued"
    /\ \A j \in Rows : j < i => task[j] # "queued"
    /\ PoolHasIdleWorker
    /\ \E out \in CtorOutcomes :
         IF out = "ok"
         THEN /\ task' = [task EXCEPT ![i] = "L86"]
              /\ UNCHANGED <<result, raised>>
         ELSE Except(i, 85, "SumoLogic() raised")
    /\ UNCHANGED <<vendor, orgFile, deployment, destPath, pc, org_list,
                   content, uncaught, next_org, api_endpoint, folder_id,
                   content_id, yielded, calls, source_calls, log>>

\* Lines 86-89: resolve the destination folder, keep its id, log.
ResolveFolder(i) ==
    /\ task[i] = "L86"
    /\ \E out \in CallOutcomes :
         /\ calls' = [calls EXCEPT ![i] =
                @ \o <<Call("get_content_by_path", destPath, NoBody, out)>>]
         /\ IF out = "ok"
            THEN /\ folder_id' = [folder_id EXCEPT ![i] = Some(ItemId(destPath))]
                 /\ log' = Logged({LogLine("worker", 89, org_list[i].orgName)})
                 /\ task' = [task EXCEPT ![i] = "L90"]
                 /\ UNCHANGED <<result, raised>>
            ELSE /\ Except(i, 86, "get_content_by_path raised")
                 /\ UNCHANGED <<folder_id, log>>
    /\ UNCHANGED <<vendor, orgFile, deployment, destPath, pc, org_list,
                   content, uncaught, next_org, api_endpoint, content_id,
                   yielded, source_calls>>

\* Lines 90-95: import the content into the folder, log twice, then read
\* content['name'] to build the path of the imported item.
Import(i) ==
    /\ task[i] = "L90"
    /\ \E out \in CallOutcomes :
         /\ calls' = [calls EXCEPT ![i] =
                @ \o <<Call("import_content_job_sync", folder_id[i][1], content, out)>>]
         /\ IF out = "ok"
            THEN /\ log' = Logged({LogLine("worker", 91, org_list[i].orgName),
                                   LogLine("worker", 92, org_list[i].orgName)})
                 /\ IF GetName(content).raised
                    THEN Except(i, 94, GetName(content).value)
                    ELSE /\ task' = [task EXCEPT ![i] = "L96"]
                         /\ UNCHANGED <<result, raised>>
            ELSE /\ Except(i, 90, "import_content_job_sync raised")
                 /\ UNCHANGED log
    /\ UNCHANGED <<vendor, orgFile, deployment, destPath, pc, org_list,
                   content, uncaught, next_org, api_endpoint, folder_id,
                   content_id, yielded, source_calls>>

\* Lines 95-97: resolve the imported item at destination_folder/content_name
\* and keep its id.
Reresolve(i) ==
    /\ task[i] = "L96"
    /\ LET imported_content_path == Format(destPath, GetName(content).value) IN
       \E out \in CallOutcomes :
         /\ calls' = [calls EXCEPT ![i] =
                @ \o <<Call("get_content_by_path", imported_content_path, NoBody, out)>>]
         /\ IF out = "ok"
            THEN /\ content_id' = [content_id EXCEPT ![i] =
                                      Some(ItemId(imported_content_path))]
                 /\ task' = [task EXCEPT ![i] = "L107"]
                 /\ UNCHANGED <<result, raised>>
            ELSE /\ Except(i, 96, "get_content_by_path raised")
                 /\ UNCHANGED content_id
    /\ UNCHANGED <<vendor, orgFile, deployment, destPath, pc, org_list,
                   content, uncaught, next_org, api_endpoint, folder_id,
                   yielded, source_calls, log>>

\* Lines 98-114: grant View on the imported item to the organization, log,
\* return the SUCCESS result.
Grant(i) ==
    /\ task[i] = "L107"
    /\ LET body == explicit_permissions(i) IN
       \E out \in CallOutcomes :
         /\ calls' = [calls EXCEPT ![i] =
                @ \o <<Call("add_permissions",
                            body.contentPermissionAssignments[1].contentId,
                            body, out)>>]
         /\ IF out = "ok"
            THEN /\ log' = Logged({LogLine("worker", 108, None)})
                 /\ Return(i, SuccessResult(i))
            ELSE /\ Except(i, 107, "add_permissions raised")
                 /\ UNCHANGED log
    /\ UNCHANGED <<vendor, orgFile, deployment, destPath, pc, org_list,
                   content, uncaught, next_org, api_endpoint, folder_id,
                   content_id, yielded, source_calls>>

\* ------------------------------------------------------------ specifications

Next ==
    \/ ReadRoster
    \/ Export
    \/ Submit
    \/ EndSubmit
    \/ Shutdown
    \/ EndCollect
    \/ \E i \in Rows : Collect(i)
    \/ \E i \in Rows : StartTask(i)
    \/ \E i \in Rows : ResolveFolder(i)
    \/ \E i \in Rows : Import(i)
    \/ \E i \in Rows : Reresolve(i)
    \/ \E i \in Rows : Grant(i)

\* Rosters of up to MaxOrgs rows.
Spec == Init /\ [][Next]_vars

\* The same, and the roster that overfills the pool.
SpecPool == (Init \/ InitPool) /\ [][Next]_vars

\* Two rows, every pair of deployment codes.
SpecCodes == InitCodes /\ [][Next]_vars

\* ------------------------------------------------------------------ claims

\* The roster row behind task i.
RowOf(i) == orgFile[1][i]

\* Result lines (line 166) in the log for row i.
ResultLines(i) == CopiesIn(LogLine("main", 166, RowOf(i).orgName), log)

\* parallel_runner has been entered and has ended, by returning or by an
\* exception that left it.
RunnerEnded ==
    \/ pc = "done"
    \/ pc = "crashed" /\ uncaught[1].line \in {161, 166}

ResultOf(i) == result[i][1]

Ops(i) == [k \in 1..Len(calls[i]) |-> calls[i][k].op]

DeployOps ==
    <<"get_content_by_path", "import_content_job_sync",
      "get_content_by_path", "add_permissions">>

\* C1: once the fan-out runner has ended, the log holds exactly one Deploy
\* Result per roster row, whatever rows the roster holds.
C1_OneResultPerRecord ==
    RunnerEnded => \A i \in Rows : ResultLines(i) = 1

\* C2: a deploy task never leaves an exception in its future; a finished
\* task has a result; a FAIL result carries a line number and an exception
\* message, a SUCCESS result carries neither.
C2_DeployerNeverRaises ==
    \A i \in Rows :
        /\ raised[i] = None
        /\ task[i] = "finished" => result[i] # None
        /\ result[i] # None =>
             /\ ResultOf(i).status \in {"SUCCESS", "FAIL"}
             /\ ResultOf(i).status = "FAIL" =>
                  ResultOf(i).line_number # None /\ ResultOf(i).exception # None
             /\ ResultOf(i).status = "SUCCESS" =>
                  ResultOf(i).line_number = None /\ ResultOf(i).exception = None

\* C2's case: a task whose permission grant raised has returned.
C2_Witness ==
    \E i \in Rows :
        /\ Len(calls[i]) = 4
        /\ calls[i][4].outcome = "raise"
        /\ task[i] = "finished"

\* C3: never more than max_workers tasks are being executed, and a queued
\* task is started only in a state where fewer than max_workers are.
C3_PoolBound ==
    /\ [](Cardinality(Running) <= max_workers)
    /\ [][\A i \in Rows :
            (task[i] = "queued" /\ task'[i] # "queued")
                => Cardinality(Running) < max_workers]_vars

\* C3's case: the pool is full and a submitted task waits in the queue.
C3_Witness ==
    /\ Cardinality(Running) = max_workers
    /\ \E i \in Rows : task[i] = "queued"

\* C4: once the fan-out runner has ended, the task of every row that can be
\* deployed (its deployment code is known) was started, ran to a terminal
\* result and had it logged, whatever happened to the other rows.
C4_NoTaskSkipped ==
    RunnerEnded =>
        \A i \in Rows :
          RowOf(i).deployment \in DOMAIN endpoints =>
            /\ task[i] = "finished"
            /\ result[i] # None
            /\ ResultOf(i).status \in {"SUCCESS", "FAIL"}
            /\ i \in yielded
            /\ ResultLines(i) >= 1

\* C5: after a failed export (content is the sentinel False) no deploy task
\* is submitted and no import call is issued.
C5_ExportFailureAborts ==
    content = PyFalse =>
        \A i \in Rows :
            /\ task[i] = "unsubmitted"
            /\ \A k \in 1..Len(calls[i]) :
                 calls[i][k].op # "import_content_job_sync"

\* C6: a row whose deployment code is unknown never has a task and never has
\* a vendor call made for it; with an unknown source code no vendor call is
\* made for the source and nothing is exported.
C6_UnknownCodeNoActivity ==
    /\ \A i \in Rows :
         RowOf(i).deployment \notin DOMAIN endpoints =>
             /\ task[i] = "unsubmitted"
             /\ api_endpoint[i] = None
             /\ calls[i] = <<>>
             /\ result[i] = None
    /\ deployment \notin DOMAIN endpoints =>
         /\ source_calls = <<>>
         /\ content = Unassigned
         /\ \A i \in Rows : task[i] = "unsubmitted" /\ calls[i] = <<>>

\* C6's case: the submit loop met a row with an unknown code, after a row
\* for which vendor calls were made, and the exception has left the runner.
C6_Witness ==
    /\ pc = "crashed"
    /\ \E i \in Rows :
         /\ RowOf(i).deployment \notin DOMAIN endpoints
         /\ next_org = i - 1
         /\ uncaught[1].line = 161
         /\ \E j \in Rows : j < i /\ calls[j] # <<>>

\* C7: the vendor calls of one task are a prefix of resolve, import,
\* re-resolve, grant; all but the last returned without error; the re-resolve
\* is at destination folder + '/' + content name; the grant is on the id the
\* re-resolve returned, for the row's organization id, View, notification
\* off; and the result is SUCCESS exactly when all four calls returned.
C7_CallOrder ==
    \A i \in Rows :
        LET n == Len(calls[i]) IN
        /\ n <= 4
        /\ Ops(i) = SubSeq(DeployOps, 1, n)
        /\ \A k \in 1..n : k < n => calls[i][k].outcome = "ok"
        /\ n >= 1 => calls[i][1].arg = destPath
        /\ n >= 2 => calls[i][2].arg = ItemId(calls[i][1].arg)
        /\ n >= 3 => calls[i][3].arg = destPath \o <<"/", content.name>>
        /\ n >= 4 =>
             LET body == calls[i][4].body
                 grant == body.contentPermissionAssignments
             IN /\ calls[i][4].arg = ItemId(calls[i][3].arg)
                /\ Len(grant) = 1
                /\ grant[1].contentId = ItemId(calls[i][3].arg)
                /\ grant[1].permissionName = "View"
                /\ grant[1].sourceType = "org"
                /\ grant[1].sourceId = RowOf(i).orgID
                /\ body.notifyRecipients = FALSE
        /\ result[i] # None =>
             (ResultOf(i).status = "SUCCESS"
                <=> (n = 4 /\ calls[i][4].outcome = "ok"))

\* C7's case: a task made all four calls and returned SUCCESS.
C7_Witness ==
    \E i \in Rows :
        /\ Len(calls[i]) = 4
        /\ result[i] # None
        /\ ResultOf(i).status = "SUCCESS"

\* C8 as stated: every line in the log was written by the main thread.
C8_OnlyMainLogs ==
    \A e \in BagToSet(log) : e.writer = "main"

\* C8 as amended: the submission and result lines are written by the main
\* thread only; what the worker threads write are the progress lines of
\* import_and_share_content (lines 89, 91, 92, 108); and no step of the
\* fan-out changes the content document.
C8_ResultLinesByMain ==
    /\ [](\A e \in BagToSet(log) :
            /\ e.writer = "worker" => e.line \in {89, 91, 92, 108}
            /\ e.line \in {154, 166} => e.writer = "main")
    /\ [][(pc \in {"submit", "collect", "shutdown"}) => (content' = content)]_vars

\* C8's case: two tasks have logged from worker threads and a result line
\* has been logged.
C8_Witness ==
    /\ \E e \in BagToSet(log) : e.line = 166
    /\ \E e1, e2 \in BagToSet(log) :
         /\ e1.writer = "worker"
         /\ e2.writer = "worker"
         /\ e1.org # e2.org
         /\ e1.line = 89
         /\ e2.line = 89

AliasPairs ==
    {<<"prod", "us1">>, <<"eu", "dub">>, <<"ca", "mon">>, <<"de", "fra">>,
     <<"au", "syd">>, <<"jp", "tky">>, <<"in", "mum">>}

\* C9: a submitted row's endpoint is a non-empty URL and its code is in the
\* table; two submitted rows with the codes of an alias pair have the same
\* endpoint; a row with a code outside the table gets no endpoint, and the
\* loop that reached it has ended with KeyError.
C9_Resolver ==
    /\ \A i \in Rows :
         api_endpoint[i] # None =>
             /\ RowOf(i).deployment \in DOMAIN endpoints
             /\ api_endpoint[i][1] # ""
    /\ \A i, j \in Rows :
         (/\ api_endpoint[i] # None
          /\ api_endpoint[j] # None
          /\ (\/ <<RowOf(i).deployment, RowOf(j).deployment>> \in AliasPairs
              \/ RowOf(i).deployment = RowOf(j).deployment))
            => api_endpoint[i] = api_endpoint[j]
    /\ \A i \in Rows :
         RowOf(i).deployment \notin DOMAIN endpoints =>
             /\ api_endpoint[i] = None
             /\ next_org < i
             /\ (next_org = i - 1 /\ pc \notin {"read_roster", "export", "submit"})
                   => /\ pc \in {"shutdown", "crashed"}
                      /\ uncaught = Some([line |-> 161, type |-> "KeyError"])

\* C9's case: the two rows carry the alias pair eu/dub and both have been
\* submitted.
C9_Witness ==
    /\ Cardinality(Rows) = 2
    /\ RowOf(1).deployment = "eu"
    /\ RowOf(2).deployment = "dub"
    /\ api_endpoint[1] # None
    /\ api_endpoint[2] # None

\* C10: after a failed export no task reaches the re-resolve or the grant
\* and every result is FAIL, raised no later than line 94.
C10_FailedExportNeverSucceeds ==
    content = PyFalse =>
        \A i \in Rows :
            /\ task[i] \notin {"L96", "L107"}
            /\ \A k \in 1..Len(calls[i]) : calls[i][k].op # "add_permissions"
            /\ Len(calls[i]) <= 2
            /\ result[i] # None =>
                 /\ ResultOf(i).status = "FAIL"
                 /\ ResultOf(i).line_number[1] <= 94

\* C10's case: after a failed export a task imported and then failed at the
\* read of content['name'].
C10_Witness ==
    /\ content = PyFalse
    /\ \E i \in Rows :
         /\ result[i] # None
         /\ ResultOf(i).line_number = Some(94)
         /\ Len(calls[i]) = 2

=============================================================================
